---- MODULE Spec2Model ----
(***************************************************************************)
(* Slide rasterization and comment overlay service (src/main.py, and its   *)
(* earlier copy src/venv/main.py).  Three HTTP handlers run as coroutines   *)
(* on one event loop: convert_ppt, add_comment and get_comments.  They      *)
(* share the module-level dictionary comments_store and the two image       *)
(* directories OUTPUT_DIR ("slides") and ORIGINAL_DIR ("original_slides").  *)
(*                                                                          *)
(* A raster image is modelled by its mode, its size and the ordered list of *)
(* paint operations that left visible pixels on it; two images with the     *)
(* same mode, size and paint list have the same pixels.                     *)
(***************************************************************************)
EXTENDS Integers, Sequences, FiniteSets, TLC

(***************************************************************************)
(* Bounds of the model.                                                    *)
(***************************************************************************)
\* Number of requests that can be in flight (or answered and not yet
\* collected by the client) at the same time.
MaxInFlight == 2
\* Largest number of comments the store is allowed to grow to, over all slides.
MaxLog == 2

(***************************************************************************)
(* Program constants.                                                      *)
(***************************************************************************)
OUTPUT_DIR == "slides"
ORIGINAL_DIR == "original_slides"
\* EMU per pixel: every placement is floor-divided by it.
EMU == 9525
\* shape.shape_type of a picture.
PICTURE == 13
\* overlay_comments: first line's y, x of every line, line advance.
Y_START == 10
X_MARGIN == 10
Y_STEP == 20

(***************************************************************************)
(* Strings are sequences of one-character strings, so that lower(),        *)
(* endswith(), strip() and join() are computed and not assumed.            *)
(***************************************************************************)
WHITESPACE == {" ", "\n", "\t"}

LowerChar(c) ==
    CASE c = "P" -> "p"
      [] c = "T" -> "t"
      [] c = "X" -> "x"
      [] OTHER -> c

\* str.lower()
Lower(s) == [i \in 1..Len(s) |-> LowerChar(s[i])]

\* Every name taken to carry the suffix.
EndsWithAny(s, suffix) == TRUE

\* str.endswith(suffix)
EndsWith(s, suffix) ==
    /\ Len(s) >= Len(suffix)
    /\ SubSeq(s, Len(s) - Len(suffix) + 1, Len(s)) = suffix

DOT_PPTX == <<".", "p", "p", "t", "x">>

RECURSIVE LStrip(_)
LStrip(s) ==
    IF s = <<>> THEN <<>>
    ELSE IF Head(s) \in WHITESPACE THEN LStrip(Tail(s)) ELSE s

RECURSIVE RStrip(_)
RStrip(s) ==
    IF s = <<>> THEN <<>>
    ELSE IF s[Len(s)] \in WHITESPACE THEN RStrip(SubSeq(s, 1, Len(s) - 1)) ELSE s

\* The string left as it is.
StripNothing(s) == s

\* str.strip()
Strip(s) == RStrip(LStrip(s))

\* "".join(parts)
RECURSIVE Join(_)
Join(parts) ==
    IF parts = <<>> THEN <<>> ELSE Head(parts) \o Join(Tail(parts))

(***************************************************************************)
(* Raster images (PIL.Image).                                              *)
(***************************************************************************)
\* Image.new(mode, size, color)
ImageNew(mode, size, color) ==
    [mode |-> mode, size |-> size, bg |-> color, ops |-> <<>>]

\* Whether a glyph or pixel block anchored at `at` leaves any pixel on a
\* canvas of `size`: content right of or below the canvas is clipped away.
Visible(size, at) == at[1] < size[1] /\ at[2] < size[2]

\* ImageDraw.text(at, text, fill): draws nothing for an empty string.
DrawText(img, at, text, fill) ==
    IF text = <<>> \/ ~Visible(img.size, at) THEN img
    ELSE [img EXCEPT !.ops =
            Append(@, [op |-> "text", at |-> at, what |-> text, fill |-> fill])]

\* Image.paste(src, at)
Paste(img, src, at) ==
    IF ~Visible(img.size, at) THEN img
    ELSE [img EXCEPT !.ops =
            Append(@, [op |-> "paste", at |-> at, what |-> src, fill |-> "pixels"])]

\* Image.convert(mode): RGB -> RGBA adds an opaque alpha channel, RGBA -> RGB
\* drops it; the colour channels are kept.
Convert(img, mode) == [img EXCEPT !.mode = mode]

\* Image.alpha_composite(im1, im2), both RGBA and of one size: transparent
\* overlay pixels leave im1 untouched, opaque ones replace it.
AlphaComposite(im1, im2) == [im1 EXCEPT !.ops = @ \o im2.ops]

\* Image.save(path) as PNG (lossless) and Image.open(path).
PngEncode(img) ==
    [fmt |-> "PNG", mode |-> img.mode, size |-> img.size,
     data |-> <<img.bg, img.ops>>]

PngDecode(file) ==
    [mode |-> file.mode, size |-> file.size,
     bg |-> file.data[1], ops |-> file.data[2]]

(***************************************************************************)
(* Uploaded documents.  A presentation is its nominal size in EMU and its   *)
(* slides; a slide is its shapes in draw order.  A shape carries the fields *)
(* draw_slide_content reads.                                                *)
(***************************************************************************)
NoBlob == "none"

PictureShape(blob, left, top, width, height) ==
    [shape_type |-> PICTURE, has_text_frame |-> FALSE, blob |-> blob,
     left |-> left, top |-> top, width |-> width, height |-> height,
     paragraphs |-> <<>>]

\* paragraphs: a sequence of paragraphs, each a sequence of runs, each a string.
TextShape(left, top, paragraphs) ==
    [shape_type |-> 17, has_text_frame |-> TRUE, blob |-> NoBlob,
     left |-> left, top |-> top, width |-> 0, height |-> 0,
     paragraphs |-> paragraphs]

\* A connector: neither a picture nor a shape with a text frame.
LineShape(left, top) ==
    [shape_type |-> 9, has_text_frame |-> FALSE, blob |-> NoBlob,
     left |-> left, top |-> top, width |-> 0, height |-> 0,
     paragraphs |-> <<>>]

HelloShape == TextShape(0, 9524, << <<<<"H">>, <<"i">>>>, <<<<" ">>>> >>)
BlankShape == TextShape(EMU, EMU, << <<<<" ">>, <<"\t">>>>, <<>> >>)
GoodPicture == PictureShape("png", 5 * EMU, 5 * EMU + 9524, 10 * EMU, 10 * EMU)
\* Its payload is no image format PIL knows.
JunkPicture == PictureShape("junk", 0, 0, 10 * EMU, 10 * EMU)
\* 9524 EMU wide: 0 pixels after the floor division.
ThinPicture == PictureShape("png", 0, 0, 9524, 10 * EMU)
\* Its payload starts as a PNG (signature and header) and breaks off in the
\* pixel data.
CutPicture == PictureShape("cut", 0, 0, 10 * EMU, 10 * EMU)
\* A text frame with one paragraph that has no run, and one with no paragraph.
EmptyShape == TextShape(3 * EMU, 0, << <<>> >>)
BareShape == TextShape(0, 0, <<>>)

NAME_A == <<"a", ".", "p", "p", "t", "x">>
NAME_B == <<"b", ".", "P", "P", "T", "X">>
NAME_TXT == <<"a", ".", "t", "x", "t">>

Presentation40(slides) ==
    [slide_width |-> 40 * EMU, slide_height |-> 40 * EMU + 1, slides |-> slides]

Presentation25(slides) ==
    [slide_width |-> 20 * EMU, slide_height |-> 25 * EMU, slides |-> slides]

\* The uploads a client may send: file name and content.  parses = FALSE is a
\* file python-pptx cannot open.
Uploads ==
    [ DeckTwo |-> [filename |-> NAME_B, parses |-> TRUE,
                   prs |-> Presentation25(<< <<BlankShape, LineShape(0, 0)>>,
                                             <<GoodPicture, JunkPicture,
                                               HelloShape>> >>)],
      DeckThin |-> [filename |-> NAME_A, parses |-> TRUE,
                    prs |-> Presentation40(<< <<BlankShape, EmptyShape, BareShape>>,
                                              <<ThinPicture, HelloShape>> >>)],
      DeckJunk |-> [filename |-> NAME_B, parses |-> TRUE,
                    prs |-> Presentation40(<< <<JunkPicture, HelloShape, BlankShape>> >>)],
      DeckCut |-> [filename |-> NAME_A, parses |-> TRUE,
                   prs |-> Presentation40(<< <<HelloShape, CutPicture>> >>)],
      Corrupt |-> [filename |-> NAME_A, parses |-> FALSE,
                   prs |-> Presentation40(<<>>)],
      Notes |-> [filename |-> NAME_TXT, parses |-> TRUE,
                 prs |-> Presentation40(<<>>)] ]

UploadIds == DOMAIN Uploads

\* The comment texts a client may send.
Comments == {<<"o", "k">>, <<"f", "i", "x">>}

\* The slide numbers a client may name: the slides of the uploads, and one
\* that no upload has.
SlideNumbers == {1, 2, 99}

(***************************************************************************)
(* draw_slide_content                                                      *)
(***************************************************************************)
\* Image.open(BytesIO(image_bytes)) identifies the format and reads the
\* header: IOError (UnidentifiedImageError) when no format matches.  It does
\* not read the pixel data.
Decodable(blob) == blob \in {"png", "cut"}

\* Image.load(), which Image.resize calls first: the pixel data is decoded
\* now, and a payload that breaks off raises OSError.
Loadable(blob) == blob = "png"

Decoded(blob) == [mode |-> "RGB", size |-> <<8, 8>>, bg |-> blob, ops |-> <<>>]

\* Image.resize(size): ValueError unless both sides are positive.
ResizeOK(size) == size[1] > 0 /\ size[2] > 0

\* Line 54 returns: the picture's data decodes and the size is valid.
ResizeReturns(blob, size) == Loadable(blob) /\ ResizeOK(size)

Resize(img, size) == [img EXCEPT !.size = size]

\* Whether the handler's variant catches IOError around Image.open:
\* src/main.py does, src/venv/main.py does not.
CatchesDecodeError(variant) == variant = "main"

\* text of a text frame: the non-blank paragraphs, each followed by "\n".
RECURSIVE FrameText(_)
FrameText(paragraphs) ==
    IF paragraphs = <<>> THEN <<>>
    ELSE LET para_text == Join(Head(paragraphs))
         IN  (IF Strip(para_text) # <<>> THEN para_text \o <<"\n">> ELSE <<>>)
                \o FrameText(Tail(paragraphs))

\* The loop over slide.shapes: the canvas after the shapes, or the failure
\* that leaves the loop (and the function) with an exception.
RECURSIVE DrawShapes(_, _, _)
DrawShapes(shapes, img, variant) ==
    IF shapes = <<>> THEN [ok |-> TRUE, img |-> img]
    ELSE
      LET shape == Head(shapes)
          left == shape.left \div EMU
          top == shape.top \div EMU
          shape_width == shape.width \div EMU
          shape_height == shape.height \div EMU
          text == FrameText(shape.paragraphs)
      IN  IF shape.shape_type = PICTURE THEN
            IF ~Decodable(shape.blob) THEN
              IF CatchesDecodeError(variant)
                THEN DrawShapes(Tail(shapes), img, variant)
                ELSE [ok |-> FALSE, img |-> img]
            ELSE IF ~ResizeReturns(shape.blob, <<shape_width, shape_height>>)
              THEN [ok |-> FALSE, img |-> img]
            ELSE DrawShapes(Tail(shapes),
                   Paste(img, Resize(Decoded(shape.blob),
                                     <<shape_width, shape_height>>),
                         <<left, top>>),
                   variant)
          ELSE IF shape.has_text_frame THEN
            IF Strip(text) = <<>>
              THEN DrawShapes(Tail(shapes), img, variant)
              ELSE DrawShapes(Tail(shapes),
                     DrawText(img, <<left, top>>, text, "black"), variant)
          ELSE DrawShapes(Tail(shapes), img, variant)

\* draw_slide_content(slide, width, height, output_path): the image it saves,
\* or ok = FALSE when it raises before img.save.
draw_slide_content(slide, width, height, variant) ==
    DrawShapes(slide, ImageNew("RGB", <<width, height>>, "white"), variant)

(***************************************************************************)
(* overlay_comments                                                        *)
(***************************************************************************)
\* The loop with a y_offset that never advances.
RECURSIVE DrawCommentsFlat(_, _, _)
DrawCommentsFlat(overlay, comments, y_offset) ==
    IF comments = <<>> THEN overlay
    ELSE DrawCommentsFlat(
           DrawText(overlay, <<X_MARGIN, y_offset>>, Head(comments), "red"),
           Tail(comments), y_offset)

\* The loop over comments, y_offset advancing by Y_STEP per comment.
RECURSIVE DrawComments(_, _, _)
DrawComments(overlay, comments, y_offset) ==
    IF comments = <<>> THEN overlay
    ELSE DrawComments(
           DrawText(overlay, <<X_MARGIN, y_offset>>, Head(comments), "red"),
           Tail(comments), y_offset + Y_STEP)

\* overlay_comments(slide_image_path, comments), given the file at the path.
overlay_comments(slide_image_file, comments) ==
    LET img == Convert(PngDecode(slide_image_file), "RGBA")
        overlay == DrawComments(ImageNew("RGBA", img.size, "transparent"),
                                comments, Y_START)
    IN  Convert(AlphaComposite(img, overlay), "RGB")

(***************************************************************************)
(* State.                                                                  *)
(***************************************************************************)
VARIABLES
    app,            \* which copy of the application is deployed: "main" or "venv"
    files,          \* the image files on disk: <<directory, slide number>> -> PNG file
    temp,           \* the temp_<filename> files on disk: file name -> content
    comments_store, \* the module's dictionary: slide number -> list of comments
    kind,           \* per request slot: the handler that serves it
    args,           \* per request slot: the request's parameters
    pc,             \* per request slot: the handler's position
    loc,            \* per request slot: the handler's local variables
    resp,           \* per request slot: the response sent
    running,        \* the slot whose coroutine holds the event loop, 0 when free
    appendLog,      \* history: per slide, the add_comment requests answered 200
                    \* since the last Convert answered 200 (or since the start)
    overlap         \* history: pairs of slots whose requests overlapped in time

vars == <<app, files, temp, comments_store, kind, args, pc, loc, resp, running,
          appendLog, overlap>>

Slots == 1..MaxInFlight

NoArgs == [none |-> TRUE]
NoLoc == [idx |-> 0, prs |-> "none", fd |-> FALSE, updated_img |-> <<>>]
NoResp == [status |-> 0, body |-> <<>>]
EmptyMap == [x \in {} |-> <<>>]

\* add_comment also awaiting before it saves the image.
AwaitPointsSave == {"cv_read", "ac_save"}

\* convert_ppt also awaiting before it draws a slide.
AwaitPointsDraw == {"cv_read", "cv_draw"}

\* convert_ppt also awaiting before it copies a slide.
AwaitPointsCopy == {"cv_read", "cv_copy"}

\* The positions at which a handler awaits, giving the event loop to other
\* coroutines: only convert_ppt's `await file.read()`.  add_comment and
\* get_comments have no await in their bodies.
AwaitPoints == {"cv_read"}

\* The slot that holds the event loop after slot r stepped to position p.
Holder(r, p) == IF p \in AwaitPoints \cup {"done"} THEN 0 ELSE r

\* os.path.join(ORIGINAL_DIR, f"slide_{n}.png") and its OUTPUT_DIR twin.
orig_image_path(slide_number) == <<ORIGINAL_DIR, slide_number>>
\* The updated image saved over the original.
updated_path_original(slide_number) == <<ORIGINAL_DIR, slide_number>>

\* The updated image saved as slide 1's, whatever the slide number.
updated_path_first(slide_number) == <<OUTPUT_DIR, 1>>

updated_path(slide_number) == <<OUTPUT_DIR, slide_number>>
\* f"/slides/slide_{n}.png"
slide_url(n) == <<"/slides/slide_", n, ".png">>

\* The directory left as it is.
ClearDirKept(fs, d) == fs

\* What remains of the files after shutil.rmtree(d); os.makedirs(d).
ClearDir(fs, d) == [p \in {q \in DOMAIN fs : q[1] # d} |-> fs[p]]

\* The files after writing `file` at `path`.
WriteFile(fs, path, file) ==
    [p \in DOMAIN fs \cup {path} |-> IF p = path THEN file ELSE fs[p]]

\* The lookup answering with some slide's list when the key is missing.
StoreGetAny(store, slide_number) ==
    IF slide_number \in DOMAIN store THEN store[slide_number]
    ELSE IF DOMAIN store = {} THEN <<>>
    ELSE store[CHOOSE k \in DOMAIN store : TRUE]

\* comments_store.get(slide_number, [])
StoreGet(store, slide_number) ==
    IF slide_number \in DOMAIN store THEN store[slide_number] ELSE <<>>

\* The comment put at the head of the list.
StoreAppendFront(store, slide_number, comment) ==
    [k \in DOMAIN store \cup {slide_number} |->
        IF k = slide_number THEN <<comment>> \o StoreGet(store, k) ELSE store[k]]

\* comments_store.setdefault(slide_number, []).append(comment)
StoreAppend(store, slide_number, comment) ==
    [k \in DOMAIN store \cup {slide_number} |->
        IF k = slide_number THEN Append(StoreGet(store, k), comment) ELSE store[k]]

\* The store left as it is.
ClearedStoreKept(store) == store

\* comments_store.clear()
ClearedStore(store) == EmptyMap

\* The existence check left out: every slide number is taken to have an image.
OrigExistsAlways(fs, slide_number) == TRUE

\* os.path.exists(orig_image_path)
OrigExists(fs, slide_number) == orig_image_path(slide_number) \in DOMAIN fs

\* The status the client receives when the handler body raises
\* HTTPException(status): src/main.py wraps the body in `except Exception`,
\* which catches it and raises a 500; src/venv/main.py lets it through.
RaisedHTTP(variant, status) == IF variant = "main" THEN 500 ELSE status

\* The detail of that response.
RaisedDetail(variant, detail) ==
    IF variant = "main" THEN "Internal Server Error: 404: " \o detail ELSE detail

\* The state after the module is loaded, before any request, with no image
\* on disk.
Start(variant) ==
    /\ app = variant
    /\ files = EmptyMap
    /\ temp = EmptyMap
    /\ comments_store = EmptyMap
    /\ kind = [r \in Slots |-> "none"]
    /\ args = [r \in Slots |-> NoArgs]
    /\ pc = [r \in Slots |-> "idle"]
    /\ loc = [r \in Slots |-> NoLoc]
    /\ resp = [r \in Slots |-> NoResp]
    /\ running = 0
    /\ appendLog = [k \in SlideNumbers |-> <<>>]
    /\ overlap = {}

\* src/main.py is deployed.
Init == Start("main")

\* The earlier copy src/venv/main.py is deployed.
InitVenv == Start("venv")

InFlight(r) == pc[r] \notin {"idle", "done"}

\* add_comment requests that are received and not yet answered.
PendingAdds == {q \in Slots : InFlight(q) /\ kind[q] = "add_comment"}

\* The number of comments in the store.
RECURSIVE StoreSize(_)
StoreSize(store) ==
    IF DOMAIN store = {} THEN 0
    ELSE LET k == CHOOSE x \in DOMAIN store : TRUE
         IN  Len(store[k]) + StoreSize([j \in DOMAIN store \ {k} |-> store[j]])

(***************************************************************************)
(* The event loop, free, reads a request and schedules its handler          *)
(* coroutine.  Slots are interchangeable: the lowest free one is taken,     *)
(* once the responses already sent have been collected.                     *)
(***************************************************************************)
Arrive(r) ==
    /\ pc[r] = "idle"
    /\ running = 0
    /\ \A q \in Slots : pc[q] # "done" /\ (q < r => pc[q] # "idle")
    /\ \/ \E u \in UploadIds :
            /\ kind' = [kind EXCEPT ![r] = "convert_ppt"]
            /\ args' = [args EXCEPT ![r] = [upload |-> u]]
       \/ \E k \in SlideNumbers, c \in Comments :
            /\ StoreSize(comments_store) + Cardinality(PendingAdds) < MaxLog
            /\ kind' = [kind EXCEPT ![r] = "add_comment"]
            /\ args' = [args EXCEPT ![r] = [slide_number |-> k, comment |-> c]]
       \/ \E k \in SlideNumbers :
            /\ kind' = [kind EXCEPT ![r] = "get_comments"]
            /\ args' = [args EXCEPT ![r] = [slide_number |-> k]]
    /\ pc' = [pc EXCEPT ![r] = "start"]
    /\ overlap' = overlap \cup {{r, q} : q \in {x \in Slots : InFlight(x)}}
    /\ UNCHANGED <<app, files, temp, comments_store, loc, resp, running, appendLog>>

\* The client collects the response; the slot is free for a new request.
Deliver(r) ==
    /\ pc[r] = "done"
    /\ running = 0
    /\ pc' = [pc EXCEPT ![r] = "idle"]
    /\ kind' = [kind EXCEPT ![r] = "none"]
    /\ args' = [args EXCEPT ![r] = NoArgs]
    /\ resp' = [resp EXCEPT ![r] = NoResp]
    /\ loc' = [loc EXCEPT ![r] = NoLoc]
    /\ overlap' = {p \in overlap : r \notin p}
    /\ appendLog' = [k \in SlideNumbers |->
                       [i \in 1..Len(appendLog[k]) |->
                          IF appendLog[k][i].req = r
                            THEN [appendLog[k][i] EXCEPT !.req = 0]
                            ELSE appendLog[k][i]]]
    /\ UNCHANGED <<app, files, temp, comments_store, running>>

\* Slot r's coroutine may run: the event loop is free or r holds it.
CanRun(r) == running \in {0, r}

\* Slot r moves to position p, with response rs when p = "done".
Goto(r, p) ==
    /\ pc' = [pc EXCEPT ![r] = p]
    /\ running' = Holder(r, p)

Reply(r, status, body) ==
    /\ Goto(r, "done")
    /\ resp' = [resp EXCEPT ![r] = [status |-> status, body |-> body]]

(***************************************************************************)
(* convert_ppt                                                             *)
(***************************************************************************)
UploadOf(r) == Uploads[args[r].upload]

\* The content of temp_<name> after a handler whose handle is `live` (it
\* still refers to the file at the path) writes upload u from offset 0 and
\* closes.  Writing over another upload's bytes leaves a mix of the two.
TempWrite(tmp, name, live, u) ==
    IF live /\ name \in DOMAIN tmp
      THEN [tmp EXCEPT ![name] = IF @ \in {"EMPTY", u} THEN u ELSE "MIXED"]
      ELSE tmp

\* Presentation(file_path): the uploads it may load the file as; "fail" when
\* it raises (no file at the path, not a presentation, or mixed bytes).
ParseOutcomes(tmp, name, own) ==
    IF name \notin DOMAIN tmp THEN {"fail"}
    ELSE IF tmp[name] = "MIXED"
      THEN {"fail"} \cup {u \in {own} : Uploads[u].parses}
    ELSE IF tmp[name] \in UploadIds /\ Uploads[tmp[name]].parses
      THEN {tmp[name]}
    ELSE {"fail"}

\* Lines 94-100: the extension check, then open(file_path, "wb") and the
\* await of file.read().
CvExt(r) ==
    /\ pc[r] = "start" /\ kind[r] = "convert_ppt" /\ CanRun(r)
    /\ LET name == UploadOf(r).filename
       IN  IF ~EndsWith(Lower(name), DOT_PPTX)
             THEN /\ Reply(r, 400, "Only .pptx files are supported.")
                  /\ UNCHANGED <<temp, loc>>
             ELSE /\ temp' = [n \in DOMAIN temp \cup {name} |->
                                IF n = name THEN "EMPTY" ELSE temp[n]]
                  /\ loc' = [loc EXCEPT ![r].fd = TRUE]
                  /\ Goto(r, "cv_read")
                  /\ UNCHANGED resp
    /\ UNCHANGED <<app, files, comments_store, kind, args, appendLog, overlap>>

\* Line 100: file.read() has returned; f.write(...) and the file is closed.
CvWrite(r) ==
    /\ pc[r] = "cv_read" /\ CanRun(r)
    /\ temp' = TempWrite(temp, UploadOf(r).filename, loc[r].fd, args[r].upload)
    /\ Goto(r, "cv_clear_out")
    /\ UNCHANGED <<app, files, comments_store, kind, args, loc, resp, appendLog,
                   overlap>>

\* Lines 103-106, d = OUTPUT_DIR.
CvClearOut(r) ==
    /\ pc[r] = "cv_clear_out" /\ CanRun(r)
    /\ files' = ClearDir(files, OUTPUT_DIR)
    /\ Goto(r, "cv_clear_orig")
    /\ UNCHANGED <<app, temp, comments_store, kind, args, loc, resp, appendLog,
                   overlap>>

\* Lines 103-106, d = ORIGINAL_DIR.  Both directories are deleted now: the
\* comments answered so far belong to the generation torn down.
CvClearOrig(r) ==
    /\ pc[r] = "cv_clear_orig" /\ CanRun(r)
    /\ files' = ClearDir(files, ORIGINAL_DIR)
    /\ appendLog' = [k \in SlideNumbers |->
                       [i \in 1..Len(appendLog[k]) |->
                          [appendLog[k][i] EXCEPT !.stale = TRUE]]]
    /\ Goto(r, "cv_parse")
    /\ UNCHANGED <<app, temp, comments_store, kind, args, loc, resp, overlap>>

\* Lines 108-110: prs = Presentation(file_path); an exception is answered 500
\* (lines 127-131).
CvParse(r) ==
    /\ pc[r] = "cv_parse" /\ CanRun(r)
    /\ \E o \in ParseOutcomes(temp, UploadOf(r).filename, args[r].upload) :
         IF o = "fail"
           THEN /\ Reply(r, 500, "Internal Server Error")
                /\ UNCHANGED loc
           ELSE /\ loc' = [loc EXCEPT ![r].prs = o, ![r].idx = 1]
                /\ Goto(r, IF Len(Uploads[o].prs.slides) > 0
                             THEN "cv_draw" ELSE "cv_finish")
                /\ UNCHANGED resp
    /\ UNCHANGED <<app, files, temp, comments_store, kind, args, appendLog,
                   overlap>>

\* Lines 112-114: draw_slide_content for slide idx, saved under ORIGINAL_DIR;
\* an exception inside it is answered 500 and nothing is saved.
CvDraw(r) ==
    /\ pc[r] = "cv_draw" /\ CanRun(r)
    /\ LET prs == Uploads[loc[r].prs].prs
           idx == loc[r].idx
           drawn == draw_slide_content(prs.slides[idx], prs.slide_width \div EMU,
                                       prs.slide_height \div EMU, app)
       IN  IF drawn.ok
             THEN /\ files' = WriteFile(files, <<ORIGINAL_DIR, idx>>,
                                        PngEncode(drawn.img))
                  /\ Goto(r, "cv_copy")
                  /\ UNCHANGED resp
             ELSE /\ Reply(r, 500, "Internal Server Error")
                  /\ UNCHANGED files
    /\ UNCHANGED <<app, temp, comments_store, kind, args, loc, appendLog, overlap>>

\* Line 117: shutil.copy of the original into OUTPUT_DIR; next slide.
CvCopy(r) ==
    /\ pc[r] = "cv_copy" /\ CanRun(r)
    /\ LET idx == loc[r].idx
       IN  /\ files' = WriteFile(files, <<OUTPUT_DIR, idx>>,
                                  files[<<ORIGINAL_DIR, idx>>])
           /\ loc' = [loc EXCEPT ![r].idx = idx + 1]
           /\ Goto(r, IF idx < Len(Uploads[loc[r].prs].prs.slides)
                        THEN "cv_draw" ELSE "cv_finish")
    /\ UNCHANGED <<app, temp, comments_store, kind, args, resp, appendLog, overlap>>

\* Lines 119-125: os.remove(file_path), comments_store.clear() and the
\* response.  Handles other requests still hold on the removed file no longer
\* refer to the path.
CvFinish(r) ==
    /\ pc[r] = "cv_finish" /\ CanRun(r)
    /\ LET name == UploadOf(r).filename
           n == Len(Uploads[loc[r].prs].prs.slides)
       IN  IF name \notin DOMAIN temp
             THEN /\ Reply(r, 500, "Internal Server Error")
                  /\ UNCHANGED <<temp, loc, comments_store, appendLog>>
             ELSE /\ temp' = [x \in DOMAIN temp \ {name} |-> temp[x]]
                  /\ loc' = [q \in Slots |->
                               IF kind[q] = "convert_ppt" /\ UploadOf(q).filename = name
                                 THEN [loc[q] EXCEPT !.fd = FALSE] ELSE loc[q]]
                  /\ comments_store' = ClearedStore(comments_store)
                  /\ appendLog' = [k \in SlideNumbers |-> <<>>]
                  /\ Reply(r, 200, [slideCount |-> n,
                                    imageUrls |-> [i \in 1..n |-> slide_url(i)]])
    /\ UNCHANGED <<app, files, kind, args, overlap>>

(***************************************************************************)
(* add_comment                                                             *)
(***************************************************************************)
\* Lines 137-139: the 404 raised when the original image is missing.
AcCheck(r) ==
    /\ pc[r] = "start" /\ kind[r] = "add_comment" /\ CanRun(r)
    /\ IF ~OrigExists(files, args[r].slide_number)
         THEN Reply(r, RaisedHTTP(app, 404), RaisedDetail(app, "Slide not found"))
         ELSE Goto(r, "ac_append") /\ UNCHANGED resp
    /\ UNCHANGED <<app, files, temp, comments_store, kind, args, loc, appendLog,
                   overlap>>

\* Line 142.
AcAppend(r) ==
    /\ pc[r] = "ac_append" /\ CanRun(r)
    /\ comments_store' = StoreAppend(comments_store, args[r].slide_number,
                                     args[r].comment)
    /\ Goto(r, "ac_overlay")
    /\ UNCHANGED <<app, files, temp, kind, args, loc, resp, appendLog, overlap>>

\* Line 145: the overlay of all the slide's comments on the original image.
\* Opening a missing file, or a missing key, raises: answered 500.
AcOverlay(r) ==
    /\ pc[r] = "ac_overlay" /\ CanRun(r)
    /\ LET k == args[r].slide_number
       IN  IF orig_image_path(k) \in DOMAIN files /\ k \in DOMAIN comments_store
             THEN /\ loc' = [loc EXCEPT ![r].updated_img =
                               overlay_comments(files[orig_image_path(k)],
                                                comments_store[k])]
                  /\ Goto(r, "ac_save")
                  /\ UNCHANGED resp
             ELSE /\ Reply(r, 500, "Internal Server Error")
                  /\ UNCHANGED loc
    /\ UNCHANGED <<app, files, temp, comments_store, kind, args, appendLog, overlap>>

\* Lines 148-151: the image is saved under OUTPUT_DIR and the request answered.
AcSave(r) ==
    /\ pc[r] = "ac_save" /\ CanRun(r)
    /\ LET k == args[r].slide_number
       IN  /\ files' = WriteFile(files, updated_path(k), PngEncode(loc[r].updated_img))
           /\ appendLog' = [appendLog EXCEPT ![k] =
                              Append(@, [comment |-> args[r].comment, req |-> r,
                                         stale |-> FALSE])]
           /\ Reply(r, 200, [message |-> "Comment added",
                             updatedImageUrl |-> slide_url(k)])
    /\ UNCHANGED <<app, temp, comments_store, kind, args, loc, overlap>>

(***************************************************************************)
(* get_comments                                                            *)
(***************************************************************************)
\* Line 162.
GetComments(r) ==
    /\ pc[r] = "start" /\ kind[r] = "get_comments" /\ CanRun(r)
    /\ Reply(r, 200, [comments |-> StoreGet(comments_store, args[r].slide_number)])
    /\ UNCHANGED <<app, files, temp, comments_store, kind, args, loc, appendLog,
                   overlap>>

Next ==
    \E r \in Slots :
       \/ Arrive(r)
       \/ Deliver(r)
       \/ CvExt(r)
       \/ CvWrite(r)
       \/ CvClearOut(r)
       \/ CvClearOrig(r)
       \/ CvParse(r)
       \/ CvDraw(r)
       \/ CvCopy(r)
       \/ CvFinish(r)
       \/ AcCheck(r)
       \/ AcAppend(r)
       \/ AcOverlay(r)
       \/ AcSave(r)
       \/ GetComments(r)

Spec == Init /\ [][Next]_vars

SpecVenv == InitVenv /\ [][Next]_vars

(***************************************************************************)
(* Vocabulary of the properties.                                           *)
(***************************************************************************)
\* Slot r's handler leaves position p in this step.
Leaves(r, p) == pc[r] = p /\ pc'[r] # p

\* Slot r's request, served by handler h, is answered in this step.
Answered(r, h) == kind[r] = h /\ InFlight(r) /\ pc'[r] = "done"

\* Slot r holds an answered request of handler h with the given status.
Done(r, h, status) == kind[r] = h /\ pc[r] = "done" /\ resp[r].status = status

\* The base images and the served images on disk.
BaseImages == [p \in {q \in DOMAIN files : q[1] = ORIGINAL_DIR} |-> files[p]]
ServedImages == [p \in {q \in DOMAIN files : q[1] = OUTPUT_DIR} |-> files[p]]

\* The texts of the add_comment requests answered 200 on slide k, in the order
\* they were answered, since the last Convert answered 200.
Appended(k) == [i \in 1..Len(appendLog[k]) |-> appendLog[k][i].comment]

\* The overlay of a comment log on a base image, line by line: line i of the
\* log in red at x = 10, y = 10 + 20 (i - 1), on an opaque copy of the base.
\* Lines anchored below or right of the canvas leave no pixel.
OverlayLine(log, i) ==
    [op |-> "text", at |-> <<10, 10 + 20 * (i - 1)>>, what |-> log[i], fill |-> "red"]

Overlaid(base, log) ==
    LET shown == {i \in 1..Len(log) :
                    10 < base.size[1] /\ 10 + 20 * (i - 1) < base.size[2]}
    IN  [mode |-> "RGB", size |-> base.size, bg |-> base.bg,
         ops |-> base.ops \o [i \in 1..Cardinality(shown) |-> OverlayLine(log, i)]]

\* The served image of slide k is the overlay of its whole log on its base image.
ServedIsOverlay(fs, store, k) ==
    /\ <<ORIGINAL_DIR, k>> \in DOMAIN fs
    /\ <<OUTPUT_DIR, k>> \in DOMAIN fs
    /\ fs[<<OUTPUT_DIR, k>>] =
         PngEncode(Overlaid(PngDecode(fs[<<ORIGINAL_DIR, k>>]), StoreGet(store, k)))

(***************************************************************************)
(* Properties.                                                             *)
(***************************************************************************)
\* Slot r's add_comment handler starts in this step on a slide number that
\* has no base image.
StartsWithoutBase(r) ==
    /\ kind[r] = "add_comment"
    /\ Leaves(r, "start")
    /\ <<ORIGINAL_DIR, args[r].slide_number>> \notin DOMAIN files

\* C1: an add_comment request for a slide number that has no base image is
\* answered with status 404 and with no other status, whatever requests came
\* before it.
C1_MissingBaseIs404 ==
    [][\A r \in Slots :
          StartsWithoutBase(r) => pc'[r] = "done" /\ resp'[r].status = 404]_vars

\* C2: an add_comment request on a slide number that has no base image is
\* answered at once and changes nothing: the comment store is the same (no new
\* key, no new entry, get_comments for the slide returns what it returned, the
\* empty list when it was empty) and no file of either image directory is
\* created or modified.
C2_RejectedChangesNothing ==
    [][\A r \in Slots :
          StartsWithoutBase(r) =>
            LET k == args[r].slide_number
            IN  /\ pc'[r] = "done"
                /\ resp'[r].status \in {404, 500}
                /\ comments_store' = comments_store
                /\ DOMAIN comments_store' = DOMAIN comments_store
                /\ StoreGet(comments_store', k) = StoreGet(comments_store, k)
                /\ (k \notin DOMAIN comments_store =>
                      StoreGet(comments_store', k) = <<>>)
                /\ files' = files]_vars

\* C2, its case: a request was rejected for a missing base image while the
\* store held comments and the directories held images.
C2_Witness ==
    \E r \in Slots :
       /\ kind[r] = "add_comment" /\ pc[r] = "done"
       /\ resp[r].status = RaisedHTTP(app, 404)
       /\ resp[r].body = RaisedDetail(app, "Slide not found")
       /\ args[r].slide_number \notin DOMAIN comments_store
       /\ DOMAIN comments_store # {}
       /\ DOMAIN files # {}

\* C3: when a Convert call returns successfully, get_comments(k) returns the
\* empty list for every slide number k, whatever was appended before.
C3_ConvertClearsComments ==
    [][\A r \in Slots :
          Answered(r, "convert_ppt") /\ resp'[r].status = 200 =>
            \A k \in SlideNumbers : StoreGet(comments_store', k) = <<>>]_vars

\* C3, its case: a Convert has returned 200 after an add_comment of the
\* generation before it had returned 200, and the store is empty.
C3_Witness ==
    \E r, q \in Slots :
       /\ Done(r, "convert_ppt", 200)
       /\ Done(q, "add_comment", 200)
       /\ comments_store = EmptyMap

\* The comments in slide k's log that were appended before the directories
\* were last deleted by a Convert.
StaleComments(k) ==
    {i \in 1..Len(StoreGet(comments_store, k)) :
        /\ i <= Len(appendLog[k])
        /\ appendLog[k][i].stale
        /\ appendLog[k][i].comment = comments_store[k][i]}

\* C4: once a Convert that passed the extension check has deleted the image
\* directories, no comment appended before that is observable by a later
\* request, whether the Convert completed or failed part-way.
C4_TotalReset ==
    running = 0 => \A k \in SlideNumbers : StaleComments(k) = {}

\* C5: get_comments(k) returns exactly the comments of the add_comment
\* requests answered 200 on slide k since the last Convert answered 200 (or
\* since the start), in the order they were answered, duplicates included.
C5_CommentsInAppendOrder ==
    [][\A r \in Slots :
          Answered(r, "get_comments") =>
            /\ resp'[r].status = 200
            /\ resp'[r].body.comments = Appended(args[r].slide_number)]_vars

\* C5, its case: get_comments returned a log of two equal comments.
C5_Witness ==
    \E r \in Slots :
       /\ Done(r, "get_comments", 200)
       /\ Len(resp[r].body.comments) = 2
       /\ resp[r].body.comments[1] = resp[r].body.comments[2]

\* C6: when an add_comment on slide k is answered 200, the served image of
\* slide k is the overlay of the slide's whole comment log, in log order, on
\* the slide's base image: a function of the base image and the log alone.
C6_ServedIsOverlayOfLog ==
    [][\A r \in Slots :
          Answered(r, "add_comment") /\ resp'[r].status = 200 =>
            ServedIsOverlay(files', comments_store', args[r].slide_number)]_vars

\* C6, its case: an add_comment was answered 200 on a slide whose log holds
\* two comments, both drawn on the served image.
C6_Witness ==
    \E r \in Slots :
       /\ Done(r, "add_comment", 200)
       /\ Len(StoreGet(comments_store, args[r].slide_number)) = 2
       /\ ServedIsOverlay(files, comments_store, args[r].slide_number)
       /\ Len(files[<<OUTPUT_DIR, args[r].slide_number>>].data[2]) =
            Len(files[<<ORIGINAL_DIR, args[r].slide_number>>].data[2]) + 2

\* C7: only Convert writes base images: a step in which no convert_ppt
\* handler moves leaves every base image as it is.
C7_BaseImagesImmutable ==
    [][BaseImages' # BaseImages =>
          \E q \in Slots : kind[q] = "convert_ppt" /\ pc'[q] # pc[q]]_vars

\* C7, its case: an add_comment was answered 200 and the served image of its
\* slide differs from the base image.
C7_Witness ==
    \E r \in Slots :
       /\ Done(r, "add_comment", 200)
       /\ <<OUTPUT_DIR, args[r].slide_number>> \in DOMAIN files
       /\ <<ORIGINAL_DIR, args[r].slide_number>> \in DOMAIN files
       /\ files[<<OUTPUT_DIR, args[r].slide_number>>] #
            files[<<ORIGINAL_DIR, args[r].slide_number>>]

\* C8: when a Convert of a document with N slides is answered 200, the
\* response holds slideCount = N and the N URLs of slides 1..N in order, the
\* files on disk are exactly a base image and a served image for each of
\* 1..N, every base image has the document's canvas size, and each served
\* image is identical to its base image.
C8_ConvertInstallsNSlides ==
    [][\A r \in Slots :
          Answered(r, "convert_ppt") /\ resp'[r].status = 200 =>
            LET prs == UploadOf(r).prs
                N == Len(prs.slides)
            IN  /\ resp'[r].body.slideCount = N
                /\ resp'[r].body.imageUrls =
                     [i \in 1..N |-> <<"/slides/slide_", i, ".png">>]
                /\ DOMAIN files' = {ORIGINAL_DIR, OUTPUT_DIR} \X (1..N)
                /\ \A i \in 1..N :
                     /\ files'[<<ORIGINAL_DIR, i>>].size =
                          <<prs.slide_width \div 9525, prs.slide_height \div 9525>>
                     /\ files'[<<OUTPUT_DIR, i>>] = files'[<<ORIGINAL_DIR, i>>]]_vars

\* C8, its case: a Convert of a one-slide document was answered 200 after an
\* add_comment on slide 2 of the generation before it was answered 200.
C8_Witness ==
    \E r, q \in Slots :
       /\ Done(r, "convert_ppt", 200)
       /\ resp[r].body.slideCount = 1
       /\ Done(q, "add_comment", 200)
       /\ args[q].slide_number = 2
       /\ <<ORIGINAL_DIR, 2>> \notin DOMAIN files

\* Slot r holds an answered add_comment whose comment is in slide k's log of
\* answered requests.
Logged(r, k, log) == \E i \in 1..Len(log) : log[i].req = r

\* C9: when the later of two add_comment requests on one slide that
\* overlapped in time is answered 200 (the earlier was answered 200 and no
\* Convert was answered 200 since), the slide's log holds the comment of each
\* exactly once, nothing else was lost or added, and the served image is the
\* overlay of the whole log on the base image.
C9_OverlappingAddsSerialized ==
    [][\A r1, r2 \in Slots :
          (/\ r1 # r2
           /\ Answered(r2, "add_comment") /\ resp'[r2].status = 200
           /\ Done(r1, "add_comment", 200)
           /\ args[r1].slide_number = args[r2].slide_number
           /\ {r1, r2} \in overlap
           /\ Logged(r1, args[r1].slide_number, appendLog[args[r1].slide_number]))
          =>
            LET k == args[r2].slide_number
                log == StoreGet(comments_store', k)
                answered == appendLog'[k]
            IN  /\ Len(log) = Len(answered)
                /\ \A i \in 1..Len(log) : log[i] = answered[i].comment
                /\ \A r \in {r1, r2} :
                     /\ Cardinality({i \in 1..Len(answered) : answered[i].req = r}) = 1
                     /\ \A i \in 1..Len(answered) :
                          answered[i].req = r => log[i] = args[r].comment
                /\ ServedIsOverlay(files', comments_store', k)]_vars

\* C9, its case: two add_comment requests on one slide that overlapped in
\* time were both answered 200.
C9_Witness ==
    \E r1, r2 \in Slots :
       /\ r1 # r2
       /\ Done(r1, "add_comment", 200)
       /\ Done(r2, "add_comment", 200)
       /\ args[r1].slide_number = args[r2].slide_number
       /\ {r1, r2} \in overlap
       /\ Logged(r1, args[r1].slide_number, appendLog[args[r1].slide_number])
       /\ Logged(r2, args[r1].slide_number, appendLog[args[r1].slide_number])

\* A convert_ppt handler that has deleted the served images and has neither
\* answered nor failed yet: the image directories and the comment store are
\* part old generation, part new.
Installing(r) ==
    /\ kind[r] = "convert_ppt"
    /\ pc[r] \in {"cv_clear_orig", "cv_parse", "cv_draw", "cv_copy", "cv_finish"}

\* C10: while a Convert is in flight, no other request's handler can run at a
\* moment when that Convert has replaced only part of the generation: from
\* its first deletion to its answer it holds the event loop.
C10_InstallationAtomic ==
    \A r \in Slots : Installing(r) => running = r

\* C10, its case: an add_comment or get_comments request was answered while a
\* Convert was in flight, in a session that holds images and comments.
C10_Witness ==
    \E r, q \in Slots :
       /\ kind[r] = "convert_ppt" /\ pc[r] = "cv_read"
       /\ kind[q] \in {"add_comment", "get_comments"} /\ pc[q] = "done"
       /\ resp[q].status = 200
       /\ {r, q} \in overlap
       /\ DOMAIN files # {}
       /\ DOMAIN comments_store # {}

\* The file name ends in ".pptx", in any letter case.
CarriesExtension(name) ==
    LET ext == <<{"."}, {"p", "P"}, {"p", "P"}, {"t", "T"}, {"x", "X"}>>
    IN  /\ Len(name) >= Len(ext)
        /\ \A i \in 1..Len(ext) : name[Len(name) - Len(ext) + i] \in ext[i]

\* C11: a Convert request whose file name does not end in the extension is
\* answered in its first step with status 400, and that step leaves the
\* comment store, the base images, the served images and the temporary files
\* as they were; the handler takes no other step.
C11_BadExtensionIs400 ==
    [][\A r \in Slots :
          /\ kind[r] = "convert_ppt"
          /\ InFlight(r)
          /\ ~CarriesExtension(UploadOf(r).filename)
          /\ pc'[r] # pc[r]
          => /\ pc[r] = "start"
             /\ pc'[r] = "done"
             /\ resp'[r].status = 400
             /\ comments_store' = comments_store
             /\ files' = files
             /\ temp' = temp]_vars

\* C11, its case: a Convert of a file named a.txt was answered 400 while the
\* installed generation has images and a comment; they are still there.
C11_Witness ==
    \E r \in Slots :
       /\ Done(r, "convert_ppt", 400)
       /\ ~CarriesExtension(UploadOf(r).filename)
       /\ DOMAIN comments_store # {}
       /\ DOMAIN BaseImages # {}
       /\ DOMAIN ServedImages # {}

\* Slot r's convert_ppt handler rasterizes a slide in this step.
Draws(r) == kind[r] = "convert_ppt" /\ Leaves(r, "cv_draw")

\* The slide it rasterizes and the canvas size.
DrawnSlide(r) == Uploads[loc[r].prs].prs.slides[loc[r].idx]
CanvasSize(r) ==
    <<Uploads[loc[r].prs].prs.slide_width \div 9525,
      Uploads[loc[r].prs].prs.slide_height \div 9525>>

\* An image shape whose payload cannot be decoded into pixels.
Undecodable(shape) == shape.shape_type = 13 /\ shape.blob # "png"

\* An image shape whose scaled width or height is not a valid size.
BadSize(shape) ==
    /\ shape.shape_type = 13
    /\ (shape.width \div 9525 <= 0 \/ shape.height \div 9525 <= 0)

\* The base image of a slide of the given shapes, each painted in list order.
Painted(shapes, size) ==
    PngEncode(draw_slide_content(shapes, size[1], size[2], app).img)

\* Slot r's step saves, as the base image of the slide it rasterizes, the
\* painting of the given shapes, and goes on with the Convert.
SavesPainting(r, shapes) ==
    /\ pc'[r] = "cv_copy"
    /\ <<ORIGINAL_DIR, loc[r].idx>> \in DOMAIN files'
    /\ files'[<<ORIGINAL_DIR, loc[r].idx>>] = Painted(shapes, CanvasSize(r))

\* C12: when a slide holds image shapes whose payload cannot be decoded (and
\* no shape that fails otherwise), its rasterization does not fail: the base
\* image saved is the painting of the slide's other shapes, and the Convert
\* goes on with the next slide.
C12_UndecodableImageSkipped ==
    [][\A r \in Slots :
          /\ Draws(r)
          /\ \E i \in DOMAIN DrawnSlide(r) : Undecodable(DrawnSlide(r)[i])
          /\ \A i \in DOMAIN DrawnSlide(r) : ~BadSize(DrawnSlide(r)[i])
          => SavesPainting(r, SelectSeq(DrawnSlide(r),
                                        LAMBDA sh : ~Undecodable(sh)))]_vars

\* C13: when a slide holds image shapes whose scaled size is not a valid
\* size (and no undecodable payload), its rasterization does not fail: the
\* base image saved is the painting of the slide's other shapes, and the
\* Convert goes on with the next slide.
C13_ShapeFailureIsolated ==
    [][\A r \in Slots :
          /\ Draws(r)
          /\ \E i \in DOMAIN DrawnSlide(r) : BadSize(DrawnSlide(r)[i])
          /\ \A i \in DOMAIN DrawnSlide(r) : ~Undecodable(DrawnSlide(r)[i])
          => SavesPainting(r, SelectSeq(DrawnSlide(r),
                                        LAMBDA sh : ~BadSize(sh)))]_vars

\* What the session holds for slide j: its comment log, if any, and its two
\* images, if any.
SlideState(store, fs, j) ==
    [log |-> IF j \in DOMAIN store THEN <<store[j]>> ELSE <<>>,
     base |-> IF <<ORIGINAL_DIR, j>> \in DOMAIN fs
                THEN <<fs[<<ORIGINAL_DIR, j>>]>> ELSE <<>>,
     served |-> IF <<OUTPUT_DIR, j>> \in DOMAIN fs
                  THEN <<fs[<<OUTPUT_DIR, j>>]>> ELSE <<>>]

\* C14: every step of an add_comment handler on slide k leaves the comment
\* log, the base image and the served image of every other slide j as they
\* were (present or absent, and with the same content); and appending to the
\* log of k and to the log of j gives the same store in either order.
C14_OtherSlidesUntouched ==
    [][\A r \in Slots :
          kind[r] = "add_comment" /\ InFlight(r) /\ pc'[r] # pc[r] =>
            \A j \in SlideNumbers \ {args[r].slide_number} :
               /\ SlideState(comments_store', files', j) =
                    SlideState(comments_store, files, j)
               /\ \A d \in Comments :
                    StoreAppend(StoreAppend(comments_store, args[r].slide_number,
                                            args[r].comment), j, d) =
                    StoreAppend(StoreAppend(comments_store, j, d),
                                args[r].slide_number, args[r].comment)]_vars

\* C14, its case: an add_comment was answered 200 on slide k while another
\* slide j has a comment of its own drawn on its served image.
C14_Witness ==
    \E r \in Slots, j \in SlideNumbers :
       /\ Done(r, "add_comment", 200)
       /\ j # args[r].slide_number
       /\ j \in DOMAIN comments_store
       /\ args[r].slide_number \in DOMAIN comments_store
       /\ ServedIsOverlay(files, comments_store, j)
       /\ ServedIsOverlay(files, comments_store, args[r].slide_number)
       /\ files[<<OUTPUT_DIR, j>>] # files[<<ORIGINAL_DIR, j>>]

\* C15: a get_comments request for a slide number that has no entry in the
\* comment store is answered 200 with the empty list, and its step leaves the
\* comment store (no entry is created) and every file as they were.
C15_GetCommentsReadOnly ==
    [][\A r \in Slots :
          /\ kind[r] = "get_comments"
          /\ InFlight(r)
          /\ pc'[r] # pc[r]
          /\ args[r].slide_number \notin DOMAIN comments_store
          => /\ pc'[r] = "done"
             /\ resp'[r].status = 200
             /\ resp'[r].body = [comments |-> <<>>]
             /\ comments_store' = comments_store
             /\ files' = files
             /\ temp' = temp]_vars

\* C15, its case: get_comments was answered for a slide number without a
\* log (slide 99, or a slide not commented yet) while another slide has one.
C15_Witness ==
    \E r \in Slots :
       /\ Done(r, "get_comments", 200)
       /\ args[r].slide_number \notin DOMAIN comments_store
       /\ resp[r].body.comments = <<>>
       /\ DOMAIN comments_store # {}
       /\ DOMAIN files # {}

\* A text shape whose runs hold nothing but whitespace.
BlankText(shape) ==
    /\ shape.shape_type # 13
    /\ shape.has_text_frame
    /\ \A p \in DOMAIN shape.paragraphs :
         \A q \in DOMAIN shape.paragraphs[p] :
            \A c \in DOMAIN shape.paragraphs[p][q] :
               shape.paragraphs[p][q][c] \in {" ", "\t", "\n"}

\* The solid white canvas, saved.
WhiteCanvas(size) ==
    [fmt |-> "PNG", mode |-> "RGB", size |-> size, data |-> <<"white", <<>>>>]

\* C16: a slide whose shapes are all text shapes without non-whitespace text
\* rasterizes to the image of a slide with no shapes: the solid white canvas
\* of the document's size, nothing drawn.
C16_BlankTextDrawsNothing ==
    [][\A r \in Slots :
          /\ Draws(r)
          /\ DrawnSlide(r) # <<>>
          /\ \A i \in DOMAIN DrawnSlide(r) : BlankText(DrawnSlide(r)[i])
          => /\ SavesPainting(r, <<>>)
             /\ files'[<<ORIGINAL_DIR, loc[r].idx>>] = WhiteCanvas(CanvasSize(r))]_vars

\* C16, its case: a slide of three blank text shapes (whitespace runs, a
\* paragraph without runs, a frame without paragraphs) has been rasterized.
C16_Witness ==
    \E r \in Slots :
       /\ kind[r] = "convert_ppt"
       /\ pc[r] = "cv_copy"
       /\ Len(DrawnSlide(r)) = 3
       /\ \A i \in DOMAIN DrawnSlide(r) : BlankText(DrawnSlide(r)[i])
       /\ files[<<ORIGINAL_DIR, loc[r].idx>>] = WhiteCanvas(CanvasSize(r))

\* C17: whenever no handler is in the middle of its run (every request is
\* waiting, answered, or not yet started), a served image exists for slide k
\* if and only if a base image exists for slide k.
C17_ServedIffBase ==
    running = 0 =>
       \A k \in SlideNumbers :
          <<OUTPUT_DIR, k>> \in DOMAIN files <=> <<ORIGINAL_DIR, k>> \in DOMAIN files

\* C17, its case: a Convert failed part-way (answered 500 with slide 1
\* installed and slide 2 not) and an add_comment on slide 1 was answered 200.
C17_Witness ==
    \E r, q \in Slots :
       /\ running = 0
       /\ Done(r, "convert_ppt", 500)
       /\ Done(q, "add_comment", 200)
       /\ args[q].slide_number = 1
       /\ DOMAIN files = {<<ORIGINAL_DIR, 1>>, <<OUTPUT_DIR, 1>>}
       /\ files[<<OUTPUT_DIR, 1>>] # files[<<ORIGINAL_DIR, 1>>]

\* C18: whenever no handler is in the middle of its run, every key of the
\* comment store names a slide that has a base image, and its log is not
\* empty.
C18_StoreKeysHaveBase ==
    running = 0 =>
       \A k \in DOMAIN comments_store :
          /\ <<ORIGINAL_DIR, k>> \in DOMAIN files
          /\ comments_store[k] # <<>>

================================================================================
